---- MODULE Spec2Model ----
(***************************************************************************)
(* cloud-rss-worker: the scheduled refresh cycle (load previous snapshot,  *)
(* fetch and parse every source, merge, persist with retries) and the KV   *)
(* namespace it writes, modelled from src/src/index.ts.                    *)
(*                                                                         *)
(* Representation.                                                         *)
(*   - a JavaScript string (a link, a title, a source name) is the         *)
(*     sequence of its UTF-16 code units; keys of the KV namespace and     *)
(*     error values are TLA+ strings;                                      *)
(*   - a 32-bit integer is a pair <<hi, lo>> of 16-bit halves of its       *)
(*     two's complement bit pattern (TLC integers are 32 bits wide, so     *)
(*     2^32 itself cannot be written);                                     *)
(*   - the clock is in milliseconds since the epoch of the model;          *)
(*   - a publicationDatetime string is a record: an ISO-8601 timestamp is  *)
(*     [valid |-> TRUE, day, ms], its date part and its time-of-day part;  *)
(*     a string that is not a date has valid = FALSE.                      *)
(*                                                                         *)
(* Specifications.                                                         *)
(*   - Spec: refresh cycles one at a time, with every failure of the       *)
(*     sources and of the namespace, and the clock;                        *)
(*   - ReadSpec: the same cycles with the fetch() handler answering        *)
(*     requests at any point;                                              *)
(*   - OverlapSpec: two invocations of scheduled() that may overlap;       *)
(*   - ParseSpec, HashSpec, StripSpec, SortSpec: fetchAndParseFeed,        *)
(*     hashUrl, stripCDATA and the sort of scheduled() applied to bounded  *)
(*     sets of documents, urls, texts and arrays of articles;              *)
(*   - LiveSpec: the cycles of Spec with the clock standing still, the     *)
(*     calls of put counted, and weak fairness for every awaited           *)
(*     operation.                                                          *)
(***************************************************************************)
EXTENDS Integers, Sequences, FiniteSets, TLC

\* ------------------------------------------------------------------ bounds

\* Number of configured sources (sources.json is configuration).
NumSources == 2
\* Number of scheduled() invocations that can be in flight.
NumCycles == 2
\* One step of the environment's clock, in ms: 48 h, so that an article is
\* seen when new, at the very end of its retention window and after it.
TickMs == 172800000
\* the longest list of item elements of a parsed document
MaxItems == 3
\* the longest list of link elements of a parsed entry
MaxLinks == 3
\* the longest tail of a hashed url after its stem
MaxUrlLen == 2
\* The clock stops advancing after this many steps.
MaxTicks == 2
\* The texts given to stripCDATA are made of at most so many pieces.
MaxTokens == 4
\* the longest array given to the sort on its own
MaxSorted == 3

\* ------------------------------------------------------- program constants

\* putWithRetries: maxRetries default.
MAX_RETRIES == 3
\* putWithRetries: initialDelayMs default.
INITIAL_DELAY_MS == 200
\* isWithinLast48Hours: the retention window in hours.
RETENTION_HOURS == 48
\* isWithinLast48Hours: 1000 * 60 * 60.
MS_PER_HOUR == 3600000
\* hashUrl: radix of toString(36).
RADIX == 36
\* Half of a 32-bit word: 2^16.
HALF == 65536
\* Milliseconds in a calendar day of an ISO-8601 timestamp.
MS_PER_DAY == 86400000

Sources == 1..NumSources
Cycles == 1..NumCycles

\* ------------------------------------------------------------- strings

\* s.substring(i - 1, j) with 1-based inclusive bounds; empty when j < i.
Slice(s, i, j) == IF j < i THEN << >> ELSE SubSeq(s, i, j)

\* Does pat occur in s at position i?
MatchesAt(s, i, pat) ==
  /\ i + Len(pat) - 1 <= Len(s)
  /\ \A k \in 1..Len(pat) : s[i + k - 1] = pat[k]

\* String.prototype.replace(/pat/g, rep) for a literal pattern: leftmost,
\* non-overlapping, the replacement is not scanned again.
RECURSIVE ReplaceAllFrom(_, _, _, _)
ReplaceAllFrom(s, i, pat, rep) ==
  IF i > Len(s) THEN << >>
  ELSE IF MatchesAt(s, i, pat)
       THEN rep \o ReplaceAllFrom(s, i + Len(pat), pat, rep)
       ELSE << s[i] >> \o ReplaceAllFrom(s, i + 1, pat, rep)

ReplaceAll(s, pat, rep) == ReplaceAllFrom(s, 1, pat, rep)

\* "[CDATA["
CDATA_OPEN == << 91, 67, 68, 65, 84, 65, 91 >>
\* "]]"
CDATA_CLOSE == << 93, 93 >>
\* "]]>"
CDATA_END == << 93, 93, 62 >>
\* "<" and "!"
LT == 60
BANG == 33

\* Length of a match of /<!?\[CDATA\[/ at position i, 0 when there is none.
OpenerLenAt(s, i) ==
  IF i > Len(s) \/ s[i] # LT THEN 0
  ELSE IF i + 1 <= Len(s) /\ s[i + 1] = BANG /\ MatchesAt(s, i + 2, CDATA_OPEN)
       THEN 2 + Len(CDATA_OPEN)
       ELSE IF MatchesAt(s, i + 1, CDATA_OPEN) THEN 1 + Len(CDATA_OPEN) ELSE 0

\* The first position >= i where "]]>" occurs, 0 when there is none
\* (the lazy (.*?) of the pattern, with the s flag).
FirstEndFrom(s, i) ==
  LET hits == { j \in i..Len(s) : MatchesAt(s, j, CDATA_END) }
  IN  IF hits = {} THEN 0 ELSE CHOOSE j \in hits : \A k \in hits : j <= k

\* content.replace(/<!?\[CDATA\[(.*?)\]\]>/gs, "$1")
RECURSIVE UnwrapFrom(_, _)
UnwrapFrom(s, i) ==
  IF i > Len(s) THEN << >>
  ELSE LET n == OpenerLenAt(s, i)
           e == IF n = 0 THEN 0 ELSE FirstEndFrom(s, i + n)
       IN  IF e # 0
           THEN Slice(s, i + n, e - 1) \o UnwrapFrom(s, e + Len(CDATA_END))
           ELSE << s[i] >> \o UnwrapFrom(s, i + 1)

stripCDATA(content) ==
  ReplaceAll(ReplaceAll(UnwrapFrom(content, 1), CDATA_OPEN, << >>),
             CDATA_CLOSE, << >>)

\* The `entities` table of decodeHtmlEntities, in the order of its keys:
\* &amp; &lt; &gt; &quot; &apos; &nbsp; &ndash; &mdash; &lsquo; &rsquo;
\* &sbquo; &ldquo; &rdquo; &bdquo;
Entities ==
  << << << 38, 97, 109, 112, 59 >>, << 38 >> >>,
     << << 38, 108, 116, 59 >>, << 60 >> >>,
     << << 38, 103, 116, 59 >>, << 62 >> >>,
     << << 38, 113, 117, 111, 116, 59 >>, << 34 >> >>,
     << << 38, 97, 112, 111, 115, 59 >>, << 39 >> >>,
     << << 38, 110, 98, 115, 112, 59 >>, << 32 >> >>,
     << << 38, 110, 100, 97, 115, 104, 59 >>, << 8211 >> >>,
     << << 38, 109, 100, 97, 115, 104, 59 >>, << 8212 >> >>,
     << << 38, 108, 115, 113, 117, 111, 59 >>, << 39 >> >>,
     << << 38, 114, 115, 113, 117, 111, 59 >>, << 39 >> >>,
     << << 38, 115, 98, 113, 117, 111, 59 >>, << 8218 >> >>,
     << << 38, 108, 100, 113, 117, 111, 59 >>, << 34 >> >>,
     << << 38, 114, 100, 113, 117, 111, 59 >>, << 34 >> >>,
     << << 38, 98, 100, 113, 117, 111, 59 >>, << 8222 >> >> >>

\* Object.keys(entities).forEach: one global replace per entity, in order.
RECURSIVE ReplaceNamed(_, _)
ReplaceNamed(result, k) ==
  IF k > Len(Entities) THEN result
  ELSE ReplaceNamed(ReplaceAll(result, Entities[k][1], Entities[k][2]), k + 1)

\* The value of a digit of the given radix (10 or 16), -1 for any other
\* code unit: 0-9, and for radix 16 a-f and A-F (the i flag).
DigitValue(ch, radix) ==
  IF ch >= 48 /\ ch <= 57 THEN ch - 48
  ELSE IF radix = 16 /\ ch >= 97 /\ ch <= 102 THEN ch - 87
  ELSE IF radix = 16 /\ ch >= 65 /\ ch <= 70 THEN ch - 55
  ELSE -1

\* The end of the longest run of digits starting at i (i - 1 when empty).
RECURSIVE DigitsEnd(_, _, _)
DigitsEnd(s, i, radix) ==
  IF i <= Len(s) /\ DigitValue(s[i], radix) >= 0
  THEN DigitsEnd(s, i + 1, radix) ELSE i - 1

\* String.fromCharCode of the digits s[i..j]: the number modulo 2^16.
RECURSIVE CharCodeOf(_, _, _, _, _)
CharCodeOf(s, i, j, radix, acc) ==
  IF i > j THEN acc
  ELSE CharCodeOf(s, i + 1, j, radix,
                  (acc * radix + DigitValue(s[i], radix)) % HALF)

\* replace(/&#(\d+);/g, ...) for radix 10 and replace(/&#x([0-9a-f]+);/gi, ...)
\* for radix 16.
RECURSIVE ReplaceNumericFrom(_, _, _)
ReplaceNumericFrom(s, i, radix) ==
  IF i > Len(s) THEN << >>
  ELSE LET d == IF radix = 16 THEN i + 3 ELSE i + 2
           prefix == /\ MatchesAt(s, i, << 38, 35 >>)
                     /\ radix = 16 => i + 2 <= Len(s) /\ s[i + 2] \in {120, 88}
           e == IF prefix THEN DigitsEnd(s, d, radix) ELSE 0
       IN  IF prefix /\ e >= d /\ e + 1 <= Len(s) /\ s[e + 1] = 59
           THEN << CharCodeOf(s, d, e, radix, 0) >>
                  \o ReplaceNumericFrom(s, e + 2, radix)
           ELSE << s[i] >> \o ReplaceNumericFrom(s, i + 1, radix)

decodeHtmlEntities(text) ==
  IF text = << >> THEN << >>
  ELSE ReplaceNumericFrom(
         ReplaceNumericFrom(ReplaceNamed(text, 1), 1, 10), 1, 16)

\* ------------------------------------------------------------- hashUrl

Base36Digits ==
  << "0", "1", "2", "3", "4", "5", "6", "7", "8", "9", "a", "b", "c", "d",
     "e", "f", "g", "h", "i", "j", "k", "l", "m", "n", "o", "p", "q", "r",
     "s", "t", "u", "v", "w", "x", "y", "z" >>

\* One round of the loop of hashUrl: hash = (hash << 5) - hash + char, then
\* hash & hash (ToInt32). On the bit pattern this is (31 * hash + char) mod 2^32.
HashStep(h, char) ==
  LET lo31 == h[2] * 31 + char
      hi31 == h[1] * 31 + (lo31 \div HALF)
  IN  << hi31 % HALF, lo31 % HALF >>

RECURSIVE HashLoop(_, _, _)
HashLoop(url, i, h) ==
  IF i > Len(url) THEN h ELSE HashLoop(url, i + 1, HashStep(h, url[i]))

\* Math.abs of a 32-bit integer: the magnitude, as an unsigned pair
\* (abs(-2^31) = 2^31 is representable, as it is in a JavaScript number).
MathAbs(h) ==
  IF h[1] < HALF \div 2 THEN h
  ELSE << (HALF - 1 - h[1] + (IF h[2] = 0 THEN 1 ELSE 0)) % HALF,
          (HALF - h[2]) % HALF >>

\* Number.prototype.toString(36) of a non-negative integer given as a pair.
RECURSIVE ToBase36(_)
ToBase36(m) ==
  LET qhi == m[1] \div RADIX
      t   == (m[1] % RADIX) * HALF + m[2]
      qlo == t \div RADIX
      d   == Base36Digits[(t % RADIX) + 1]
  IN  IF qhi = 0 /\ qlo = 0 THEN << d >>
      ELSE Append(ToBase36(<< qhi, qlo >>), d)

\* hashUrl with the loop bound i < url.length - 1: the last code unit is
\* left out.
hashUrlSkipsLast(url) ==
  ToBase36(MathAbs(HashLoop(Slice(url, 1, Len(url) - 1), 1, << 0, 0 >>)))

hashUrl(url) == ToBase36(MathAbs(HashLoop(url, 1, << 0, 0 >>)))

\* ------------------------------------------------------------- dates

\* The result of Date.prototype.getTime() of an invalid date (every valid
\* instant of the model is >= 0).
NaN == -1

isNaN(x) == x = NaN

\* A publicationDatetime string that is not a date.
BadDate == [valid |-> FALSE, day |-> 0, ms |-> 0]

\* Date.prototype.toISOString: "YYYY-MM-DDTHH:mm:ss.sssZ", the date part
\* and the time-of-day part of the instant.
toISOString(ms) ==
  [valid |-> TRUE, day |-> ms \div MS_PER_DAY, ms |-> ms % MS_PER_DAY]

\* new Date(dateString).getTime()
DateGetTime(dateString) ==
  IF dateString.valid THEN dateString.day * MS_PER_DAY + dateString.ms
  ELSE NaN

\* isWithinLast48Hours written as !(hoursDifference > 48): a date that does
\* not parse passes.
isWithinLast48HoursNotOlder(dateString, now) ==
  LET pubDate == DateGetTime(dateString)
  IN  IF isNaN(pubDate) THEN TRUE
      ELSE ~(now - pubDate > RETENTION_HOURS * MS_PER_HOUR)

\* isWithinLast48Hours, with `now` the value of its `new Date()`: a
\* comparison with NaN is false.
isWithinLast48Hours(dateString, now) ==
  LET pubDate == DateGetTime(dateString)
  IN  IF isNaN(pubDate) THEN FALSE
      ELSE now - pubDate <= RETENTION_HOURS * MS_PER_HOUR

\* ------------------------------------------------------------- feeds

\* The document a source answers with, as DOMParser presents it: whether a
\* parsererror element is found, the item elements and the entry elements,
\* each with the textContent of the first child of a name ("" when the child
\* is missing) and, for an entry, the rel and href of its link elements
\* ("" when the attribute is missing).
Document(parsererror, items, entries) ==
  [parsererror |-> parsererror, items |-> items, entries |-> entries]

Item(title, link, description) ==
  [title |-> title, link |-> link, description |-> description]

Link(rel, href) == [rel |-> rel, href |-> href]

Entry(title, links, content, summary) ==
  [title |-> title, links |-> links, content |-> content, summary |-> summary]

NoDocument == Document(FALSE, << >>, << >>)

\* What fetch(url) settles with: it throws, or it gives a response with a
\* status and a body.
Threw == [state |-> "threw", status |-> 0, body |-> NoDocument]
Response(status, body) == [state |-> "response", status |-> status, body |-> body]

\* Response.ok
ResponseOk(r) == r.status >= 200 /\ r.status <= 299

\* "alternate"
ALTERNATE == << 97, 108, 116, 101, 114, 110, 97, 116, 101 >>

ParsedArticle(link, title, snippet, sourceName, url) ==
  [id |-> hashUrl(link), url |-> link, title |-> title, snippet |-> snippet,
   source |-> sourceName, sourceUrl |-> url]

\* The loop over rssItems with the test of the ATOM branch, link && title.
RECURSIVE ParseItemsNeedTitle(_, _, _)
ParseItemsNeedTitle(items, url, sourceName) ==
  IF items = << >> THEN << >>
  ELSE LET item == Head(items)
           title == decodeHtmlEntities(stripCDATA(item.title))
           link == item.link
           description == decodeHtmlEntities(stripCDATA(item.description))
           rest == ParseItemsNeedTitle(Tail(items), url, sourceName)
       IN  IF link # << >> /\ title # << >>
           THEN << ParsedArticle(link, title, description, sourceName, url) >>
                  \o rest
           ELSE rest

\* The loop over rssItems.
RECURSIVE ParseItems(_, _, _)
ParseItems(items, url, sourceName) ==
  IF items = << >> THEN << >>
  ELSE LET item == Head(items)
           title == decodeHtmlEntities(stripCDATA(item.title))
           link == item.link
           description == decodeHtmlEntities(stripCDATA(item.description))
           rest == ParseItems(Tail(items), url, sourceName)
       IN  IF link # << >>
           THEN << ParsedArticle(link,
                                 IF title # << >> THEN title ELSE sourceName,
                                 description, sourceName, url) >> \o rest
           ELSE rest

\* The loop over linkElements with rel === "alternate" as its only test.
RECURSIVE AlternateHrefStrict(_)
AlternateHrefStrict(links) ==
  IF links = << >> THEN << >>
  ELSE IF Head(links).rel = ALTERNATE
       THEN Head(links).href
       ELSE AlternateHrefStrict(Tail(links))

\* The loop over linkElements: the href of the first link whose rel is
\* "alternate" or missing ("" when that href is missing), "" when there is
\* no such link.
RECURSIVE AlternateHref(_)
AlternateHref(links) ==
  IF links = << >> THEN << >>
  ELSE IF Head(links).rel = ALTERNATE \/ Head(links).rel = << >>
       THEN Head(links).href
       ELSE AlternateHref(Tail(links))

\* The link of an ATOM entry: the alternate link, else the first link.
EntryLink(links) ==
  LET link == AlternateHref(links)
  IN  IF link = << >> /\ links # << >> THEN links[1].href ELSE link

\* The loop over atomEntries.
RECURSIVE ParseEntries(_, _, _)
ParseEntries(entries, url, sourceName) ==
  IF entries = << >> THEN << >>
  ELSE LET entry == Head(entries)
           title == decodeHtmlEntities(stripCDATA(entry.title))
           link == EntryLink(entry.links)
           content == decodeHtmlEntities(stripCDATA(entry.content))
           summary == decodeHtmlEntities(stripCDATA(entry.summary))
           description == IF content # << >> THEN content ELSE summary
           rest == ParseEntries(Tail(entries), url, sourceName)
       IN  IF link # << >> /\ title # << >>
           THEN << ParsedArticle(link, title, description, sourceName, url) >>
                  \o rest
           ELSE rest

\* The try block falling back to the entry elements when the item elements
\* gave no article.
ParseDocumentFallsBack(doc, url, sourceName) ==
  IF ParseItems(doc.items, url, sourceName) # << >>
  THEN ParseItems(doc.items, url, sourceName)
  ELSE ParseEntries(doc.entries, url, sourceName)

\* The articles the try block collects from the document.
ParseDocument(doc, url, sourceName) ==
  IF Len(doc.items) > 0
  THEN ParseItems(doc.items, url, sourceName)
  ELSE ParseEntries(doc.entries, url, sourceName)

\* fetchAndParseFeed without the check of response.ok.
fetchAndParseFeedAnyStatus(url, sourceName, r) ==
  IF r.state = "threw" \/ r.body.parsererror THEN << >>
  ELSE ParseDocument(r.body, url, sourceName)

\* fetchAndParseFeed(url, sourceName), given what fetch(url) settled with:
\* a fetch that throws, a response that is not ok and a parsererror are
\* caught, and the result is an empty array.
fetchAndParseFeed(url, sourceName, r) ==
  IF r.state = "threw" \/ ~ResponseOk(r) \/ r.body.parsererror THEN << >>
  ELSE ParseDocument(r.body, url, sourceName)

\* ------------------------------------------------------------- merge

\* The loop that fills existingArticlesMap: a later article of an id
\* replaces an earlier one.
MapFromArticles(existingArticles) ==
  [id \in { existingArticles[i].id : i \in DOMAIN existingArticles } |->
     LET last == CHOOSE i \in DOMAIN existingArticles :
                   /\ existingArticles[i].id = id
                   /\ \A j \in DOMAIN existingArticles :
                        existingArticles[j].id = id => j <= i
     IN  existingArticles[last]]

EmptyMap == MapFromArticles(<< >>)

WithDatetime(parsed, publicationDatetime) ==
  [id |-> parsed.id, url |-> parsed.url, title |-> parsed.title,
   snippet |-> parsed.snippet, source |-> parsed.source,
   sourceUrl |-> parsed.sourceUrl,
   publicationDatetime |-> publicationDatetime]

\* The callback of parsedArticles.map spreading `existing` in place of
\* `parsed`: a known article is written as the previous snapshot had it.
MergeOneKeepsExisting(parsed, existingMap, nowIso) ==
  IF parsed.id \in DOMAIN existingMap
  THEN existingMap[parsed.id]
  ELSE WithDatetime(parsed, nowIso)

\* The callback of parsedArticles.map without the lookup: every article is
\* taken as new.
MergeOneAlwaysNow(parsed, existingMap, nowIso) == WithDatetime(parsed, nowIso)

\* The callback of parsedArticles.map without its else branch: an article
\* that is not in the map gets the publicationDatetime of `undefined`.
MergeOneNoElse(parsed, existingMap, nowIso) ==
  IF parsed.id \in DOMAIN existingMap
  THEN WithDatetime(parsed, existingMap[parsed.id].publicationDatetime)
  ELSE WithDatetime(parsed, BadDate)

\* The callback of parsedArticles.map.
MergeOne(parsed, existingMap, nowIso) ==
  IF parsed.id \in DOMAIN existingMap
  THEN WithDatetime(parsed, existingMap[parsed.id].publicationDatetime)
  ELSE WithDatetime(parsed, nowIso)

\* parsedArticles.map against a map that was never filled.
MergeAllUnfilledMap(parsedArticles, existingMap, nowIso) ==
  [i \in DOMAIN parsedArticles |->
     MergeOne(parsedArticles[i], MapFromArticles(<< >>), nowIso)]

MergeAll(parsedArticles, existingMap, nowIso) ==
  [i \in DOMAIN parsedArticles |->
     MergeOne(parsedArticles[i], existingMap, nowIso)]

\* allArticles.filter(isWithinLast48Hours), its `new Date()` reading filterNow.
RECURSIVE FilterRecent(_, _)
FilterRecent(allArticles, filterNow) ==
  IF allArticles = << >> THEN << >>
  ELSE LET rest == FilterRecent(Tail(allArticles), filterNow)
       IN  IF isWithinLast48Hours(Head(allArticles).publicationDatetime,
                                  filterNow)
           THEN << Head(allArticles) >> \o rest
           ELSE rest

\* The comparator with dateA - dateB: ascending order.
CompareArticlesAscending(a, b) ==
  LET dateA == DateGetTime(a.publicationDatetime)
      dateB == DateGetTime(b.publicationDatetime)
  IN  IF isNaN(dateA) /\ isNaN(dateB) THEN 0
      ELSE IF isNaN(dateA) THEN 1
      ELSE IF isNaN(dateB) THEN -1
      ELSE IF dateA > dateB THEN 1
      ELSE IF dateA < dateB THEN -1
      ELSE 0

\* The comparator with the two isNaN results exchanged: invalid dates first.
CompareArticlesInvalidFirst(a, b) ==
  LET dateA == DateGetTime(a.publicationDatetime)
      dateB == DateGetTime(b.publicationDatetime)
  IN  IF isNaN(dateA) /\ isNaN(dateB) THEN 0
      ELSE IF isNaN(dateA) THEN -1
      ELSE IF isNaN(dateB) THEN 1
      ELSE IF dateB > dateA THEN 1
      ELSE IF dateB < dateA THEN -1
      ELSE 0

\* The comparator of recentArticles.sort: its sign, -1, 0 or 1.
CompareArticles(a, b) ==
  LET dateA == DateGetTime(a.publicationDatetime)
      dateB == DateGetTime(b.publicationDatetime)
  IN  IF isNaN(dateA) /\ isNaN(dateB) THEN 0
      ELSE IF isNaN(dateA) THEN 1
      ELSE IF isNaN(dateB) THEN -1
      ELSE IF dateB > dateA THEN 1
      ELSE IF dateB < dateA THEN -1
      ELSE 0

\* Array.prototype.sort is stable: x goes after every element that does not
\* compare greater than it.
RECURSIVE InsertSorted(_, _)
InsertSorted(sorted, x) ==
  IF sorted = << >> THEN << x >>
  ELSE IF CompareArticles(Head(sorted), x) <= 0
       THEN << Head(sorted) >> \o InsertSorted(Tail(sorted), x)
       ELSE << x >> \o sorted

RECURSIVE SortArticles(_)
SortArticles(articles) ==
  IF articles = << >> THEN << >>
  ELSE InsertSorted(SortArticles(SubSeq(articles, 1, Len(articles) - 1)),
                    articles[Len(articles)])

\* The articles of a map, in some order.
RECURSIVE MapValues(_)
MapValues(m) ==
  IF DOMAIN m = {} THEN << >>
  ELSE LET id == CHOOSE k \in DOMAIN m : TRUE
       IN  << m[id] >> \o MapValues([k \in DOMAIN m \ { id } |-> m[k]])

\* A merge that also carries forward the existing articles that no source
\* lists any more.
MergeSnapshotCarryForward(parsedArticles, existingMap, nowIso, filterNow) ==
  LET kept == [id \in { k \in DOMAIN existingMap :
                          \A i \in DOMAIN parsedArticles :
                            parsedArticles[i].id # k } |-> existingMap[id]]
  IN  SortArticles(FilterRecent(
        MergeAll(parsedArticles, existingMap, nowIso) \o MapValues(kept),
        filterNow))

\* recentArticles of scheduled(): map, filter, sort.
MergeSnapshot(parsedArticles, existingMap, nowIso, filterNow) ==
  SortArticles(FilterRecent(MergeAll(parsedArticles, existingMap, nowIso),
                            filterNow))

\* ------------------------------------------------------------- KV values

\* What get() gives for a key that holds nothing.
Null == [kind |-> "null", value |-> << >>]

\* JSON.stringify of an array of articles.
JSONstringify(articles) == [kind |-> "json", value |-> articles]

\* Math.floor(Date.now() / 1000).toString()
UnixSeconds(ms) == [kind |-> "seconds", value |-> << ms \div 1000 >>]

\* A stored string that is not JSON.
NotJson == [kind |-> "text", value |-> << >>]

\* JSON.parse throws on a string that is not JSON.
JSONparseThrows(text) == text.kind = "text"

JSONparse(text) == text.value

\* ------------------------------------------------------------- inputs

\* sources: the name and the feed url of each configured source
\* ("S1", "S2", ... and "f1", "f2", ...).
SourceName(s) == << 83, 48 + s >>
SourceUrl(s) == << 102, 48 + s >>

\* Article links: "Aa"; "BB", which hashUrl maps to the id of "Aa"; and
\* "Aa/", "Aa" with a trailing slash.
UrlA == << 65, 97 >>
UrlB == << 66, 66 >>
UrlC == << 65, 97, 47 >>

\* "T" and "&amp;" (a title), "<![CDATA[d]]>" (a description).
TitleT == << 84 >>
TitleAmp == << 38, 97, 109, 112, 59 >>
DescD == << 60, 33, 91, 67, 68, 65, 84, 65, 91, 100, 93, 93, 62 >>

RssOf(links) ==
  Document(FALSE, [i \in DOMAIN links |-> Item(TitleT, links[i], DescD)], << >>)

\* What a fetch of a source can settle with in a cycle.
FeedResponses ==
  { Threw,
    Response(500, RssOf(<< UrlC >>)),
    Response(200, Document(TRUE, << Item(TitleT, UrlA, << >>) >>, << >>)),
    Response(200, RssOf(<< UrlA >>)),
    Response(200, Document(FALSE, << >>,
       << Entry(TitleAmp, << Link(<< 115 >>, UrlB), Link(ALTERNATE, UrlC) >>,
                << >>, DescD) >>)) }

\* What the n-th put() on a key rejects with: every rejection is an error
\* of its own.
PutError(key, n) == [key |-> key, attempt |-> n]

\* The keys of the KV namespace, in the order scheduled() writes them.
SNAPSHOT_KEY == "all_articles"
MARKER_KEY == "last_update"
Keys == { SNAPSHOT_KEY, MARKER_KEY }

\* A snapshot left in the namespace by an earlier deployment or an operator:
\* an article whose publicationDatetime is not a date.
LegacySnapshot ==
  << WithDatetime(ParsedArticle(UrlA, TitleT, << >>, SourceName(1),
                                SourceUrl(1)), BadDate) >>

\* ------------------------------------------------------------- state

VARIABLES
  clock,        \* the wall clock, ms
  kv,           \* env.ARTICLES: key -> stored value, Null when absent
  pc,           \* per invocation of scheduled(): where it stands
  loaded,       \* per invocation: get("all_articles") returned
  existingArticlesMap,  \* per invocation: id -> Article
  results,      \* per invocation and source: what fetchAndParseFeed
                \* resolved with, Pending before
  failed,       \* per invocation: the sources that failed (history)
  nowIso,       \* per invocation: nowIso of the merge
  recentArticles,   \* per invocation: the merged, filtered, sorted articles
  currentTimestamp, \* per invocation: the value for last_update
  putKey,       \* per invocation: the key of the putWithRetries in progress
  attempts,     \* per invocation: `attempts` of that putWithRetries
  delay,        \* per invocation: `delay` of that putWithRetries
  waits,        \* per invocation: the setTimeout delays that putWithRetries
                \* has waited, in order (history)
  tried,        \* per invocation: the keys put() was called on (history)
  written,      \* per invocation: the keys put() resolved on (history)
  lastError,    \* per invocation: what the last failed put() of the
                \* putWithRetries in progress rejected with
  thrown,       \* per invocation: what scheduled() threw
  puts,         \* per invocation (history): the calls of kvNamespace.put
                \* so far, counted where CountPut is conjoined
  lastStored,   \* history: <<id, publicationDatetime>> of every id, as a
                \* cycle last wrote it under all_articles
  before,       \* per invocation (history): the namespace as it was when
                \* the invocation started
  overlapped,   \* per invocation (history): another invocation was in
                \* flight at some point of this one
  response,     \* the Response the fetch() handler last returned
  call          \* the last call of a helper function: its name, its
                \* arguments and what it returned

cycleVars ==
  << pc, loaded, existingArticlesMap, results, failed, nowIso, recentArticles,
     currentTimestamp, putKey, attempts, delay, waits, tried, written,
     lastError, thrown, puts >>

\* What no step of scheduled() changes.
frameVars == << before, overlapped, response, call >>

vars == << clock, kv, cycleVars, lastStored, frameVars >>

NoKey == "none"
NoError == [key |-> NoKey, attempt |-> 0]
NoDatetime == BadDate

\* A failure of a source: a transport error, a status that is not a success,
\* or XML that does not parse.
SourceFailed(r) ==
  \/ r.state = "threw"
  \/ r.status < 200
  \/ r.status > 299
  \/ r.body.parsererror

\* A promise of fetchPromises: not resolved yet, or resolved with an array.
PendingResult == [settled |-> FALSE, articles |-> << >>]
Resolved(articles) == [settled |-> TRUE, articles |-> articles]

\* A namespace that holds nothing.
NoStore == [k \in Keys |-> Null]

\* No request has been answered; no helper has been called.
NoResponse == [status |-> 0, body |-> [kind |-> "null", value |-> << >>]]
NoCall == [fn |-> "none", args |-> << >>, result |-> << >>]

\* The stored values the namespace can start with.
InitialSnapshots == { Null, JSONstringify(LegacySnapshot), NotJson }

Init ==
  /\ clock = 0
  /\ \E v \in InitialSnapshots : kv = [k \in Keys |-> IF k = SNAPSHOT_KEY THEN v ELSE Null]
  /\ pc = [c \in Cycles |-> "Idle"]
  /\ loaded = [c \in Cycles |-> FALSE]
  /\ existingArticlesMap = [c \in Cycles |-> EmptyMap]
  /\ results = [c \in Cycles |-> [s \in Sources |-> PendingResult]]
  /\ failed = [c \in Cycles |-> {}]
  /\ nowIso = [c \in Cycles |-> NoDatetime]
  /\ recentArticles = [c \in Cycles |-> << >>]
  /\ currentTimestamp = [c \in Cycles |-> Null]
  /\ putKey = [c \in Cycles |-> NoKey]
  /\ attempts = [c \in Cycles |-> 0]
  /\ delay = [c \in Cycles |-> 0]
  /\ waits = [c \in Cycles |-> << >>]
  /\ tried = [c \in Cycles |-> {}]
  /\ written = [c \in Cycles |-> {}]
  /\ lastError = [c \in Cycles |-> NoError]
  /\ thrown = [c \in Cycles |-> NoError]
  /\ puts = [c \in Cycles |-> 0]
  /\ lastStored = {}
  /\ before = [c \in Cycles |-> NoStore]
  /\ overlapped = [c \in Cycles |-> FALSE]
  /\ response = NoResponse
  /\ call = NoCall

\* ------------------------------------------------------------- scheduled()

Except1(f, c, v) == [f EXCEPT ![c] = v]

\* results.flat() of the per-source results, in the order of `sources`.
RECURSIVE FlatFrom(_, _)
FlatFrom(arrays, s) ==
  IF s > NumSources THEN << >> ELSE arrays[s] \o FlatFrom(arrays, s + 1)

\* parsedArticles: the arrays the fetchPromises resolved with, flattened.
ParsedArticlesOf(rs) == FlatFrom([s \in Sources |-> rs[s].articles], 1)

\* The two putWithRetries calls the other way round.
KeyOrderMarkerFirst == << MARKER_KEY, SNAPSHOT_KEY >>

\* The keys in the order of the two putWithRetries calls.
KeyOrder == << SNAPSHOT_KEY, MARKER_KEY >>

\* if (attempts > maxRetries + 1) throw error: one more retry.
GivesUpOneLater(n) == n > MAX_RETRIES + 1

\* while (attempts <= maxRetries) ... if (attempts > maxRetries) throw error
GivesUp(n) == n > MAX_RETRIES

\* delay += initialDelayMs
NextDelayLinear(d) == d + INITIAL_DELAY_MS

\* delay *= 2
NextDelay(d) == d * 2

\* A catch block that logs the error and returns.
RethrowSwallowed(error) == [pc |-> "Succeeded", thrown |-> NoError]

\* The catch block of scheduled(): the error of putWithRetries is thrown again.
Rethrow(error) == [pc |-> "Failed", thrown |-> error]

\* The two values passed to the wrong putWithRetries calls.
ValueForSwapped(c, key) ==
  IF key = SNAPSHOT_KEY THEN currentTimestamp[c]
  ELSE JSONstringify(recentArticles[c])

\* The value scheduled() writes under a key.
ValueFor(c, key) ==
  IF key = SNAPSHOT_KEY THEN JSONstringify(recentArticles[c])
  ELSE currentTimestamp[c]

\* Promise.race in place of Promise.all: one settled fetch is enough.
AllSettledAny(rs) == \E s \in Sources : rs[s].settled

\* await Promise.all(fetchPromises): every promise has resolved.
AllSettled(rs) == \A s \in Sources : rs[s].settled

InFlight(c) == pc[c] # "Idle"

\* The invocation has started and has neither returned nor thrown.
Running(c) == pc[c] \notin { "Idle", "Succeeded", "Failed" }

\* The runtime invokes scheduled(); at most `limit` invocations are in flight.
\* An invocation takes the first free slot (the slots are interchangeable).
Scheduled(c, limit) ==
  /\ pc[c] = "Idle"
  /\ \A d \in Cycles : d < c => InFlight(d)
  /\ Cardinality({ d \in Cycles : InFlight(d) }) < limit
  /\ pc' = Except1(pc, c, "Loading")
  /\ before' = Except1(before, c, kv)
  /\ overlapped' = [d \in Cycles |->
                      IF d = c THEN \E e \in Cycles \ { c } : Running(e)
                      ELSE overlapped[d] \/ Running(d)]
  /\ UNCHANGED << clock, kv, loaded, existingArticlesMap, results, failed, nowIso,
                  recentArticles, currentTimestamp, putKey, attempts, delay,
                  waits, tried, written, lastError, thrown, puts, lastStored,
                  response, call >>

\* The fetches of all sources are issued.
IssueFetches(c) ==
  /\ pc' = Except1(pc, c, "Fetching")
  /\ UNCHANGED << clock, kv, results, failed, nowIso, recentArticles,
                  currentTimestamp, putKey, attempts, delay, waits, tried,
                  written, lastError, thrown, puts, lastStored, frameVars >>

\* get("all_articles") returns: the map is filled from the stored array; a
\* null (nothing stored) or a JSON.parse that throws leaves it empty.
LoadExisting(c) ==
  /\ pc[c] = "Loading"
  /\ LET existingJson == kv[SNAPSHOT_KEY]
     IN  existingArticlesMap' =
           Except1(existingArticlesMap, c,
                   IF existingJson.kind = "null" \/ JSONparseThrows(existingJson)
                   THEN EmptyMap
                   ELSE MapFromArticles(JSONparse(existingJson)))
  /\ loaded' = Except1(loaded, c, TRUE)
  /\ IssueFetches(c)

\* get("all_articles") throws: the catch leaves the map empty.
LoadThrows(c) ==
  /\ pc[c] = "Loading"
  /\ UNCHANGED << loaded, existingArticlesMap >>
  /\ IssueFetches(c)

\* What fetchAndParseFeed(source.url, source.name) resolves with, for every
\* source and every response to its fetch.
FeedResults ==
  [s \in Sources |->
     [r \in FeedResponses |-> fetchAndParseFeed(SourceUrl(s), SourceName(s), r)]]

\* The fetch of one source settles and its fetchAndParseFeed resolves.
FetchSettles(c, s) ==
  /\ pc[c] = "Fetching"
  /\ ~results[c][s].settled
  /\ \E r \in FeedResponses :
       /\ results' = [results EXCEPT ![c][s] = Resolved(FeedResults[s][r])]
       /\ failed' = Except1(failed, c, IF SourceFailed(r)
                                       THEN failed[c] \cup { s }
                                       ELSE failed[c])
  /\ UNCHANGED << clock, kv, pc, loaded, existingArticlesMap, nowIso,
                  recentArticles, currentTimestamp, putKey, attempts, delay,
                  waits, tried, written, lastError, thrown, puts, lastStored,
                  frameVars >>

\* putWithRetries(env.ARTICLES, key, value) is entered: its locals are new.
BeginPut(c, key) ==
  /\ putKey' = Except1(putKey, c, key)
  /\ attempts' = Except1(attempts, c, 0)
  /\ delay' = Except1(delay, c, INITIAL_DELAY_MS)
  /\ waits' = Except1(waits, c, << >>)
  /\ lastError' = Except1(lastError, c, NoError)

\* Promise.all has resolved: flatten, merge with the existing timestamps,
\* filter, sort, and enter the first putWithRetries. The block is synchronous:
\* its three readings of the clock give the same instant.
Merge(c) ==
  /\ pc[c] = "Fetching"
  /\ AllSettled(results[c])
  /\ recentArticles' =
       Except1(recentArticles, c,
               MergeSnapshot(ParsedArticlesOf(results[c]),
                             existingArticlesMap[c], toISOString(clock), clock))
  /\ currentTimestamp' = Except1(currentTimestamp, c, UnixSeconds(clock))
  /\ nowIso' = Except1(nowIso, c, toISOString(clock))
  /\ pc' = Except1(pc, c, "Putting")
  /\ BeginPut(c, KeyOrder[1])
  /\ UNCHANGED << clock, kv, loaded, existingArticlesMap, results, failed, tried,
                  written, thrown, puts, lastStored, frameVars >>

\* The ids and timestamps of a stored snapshot replace those of the same ids.
Remember(stored, articles) ==
  { p \in stored : \A i \in DOMAIN articles : articles[i].id # p[1] }
    \cup { << articles[i].id, articles[i].publicationDatetime >> :
           i \in DOMAIN articles }

\* kvNamespace.put resolves: the value is stored and putWithRetries returns.
\* (PutSucceeds and PutFails say nothing of `puts`: a step conjoins CountPut
\* or leaves the count alone.)
PutSucceeds(c) ==
  /\ pc[c] = "Putting"
  /\ kv' = [kv EXCEPT ![putKey[c]] = ValueFor(c, putKey[c])]
  /\ tried' = Except1(tried, c, tried[c] \cup { putKey[c] })
  /\ written' = Except1(written, c, written[c] \cup { putKey[c] })
  /\ lastStored' = IF putKey[c] = SNAPSHOT_KEY
                   THEN Remember(lastStored, recentArticles[c])
                   ELSE lastStored
  /\ IF putKey[c] = KeyOrder[1]
     THEN /\ BeginPut(c, KeyOrder[2])
          /\ UNCHANGED pc
     ELSE /\ pc' = Except1(pc, c, "Succeeded")
          /\ putKey' = Except1(putKey, c, NoKey)
          /\ UNCHANGED << attempts, delay, waits, lastError >>
  /\ UNCHANGED << clock, loaded, existingArticlesMap, results, failed, nowIso,
                  recentArticles, currentTimestamp, thrown, frameVars >>

\* kvNamespace.put rejects: give up and throw after maxRetries retries,
\* else wait `delay` ms.
PutFails(c) ==
  /\ pc[c] = "Putting"
  /\ LET error == PutError(putKey[c], attempts[c] + 1) IN
       /\ lastError' = Except1(lastError, c, error)
       /\ attempts' = Except1(attempts, c, attempts[c] + 1)
       /\ IF GivesUp(attempts[c] + 1)
          THEN /\ pc' = Except1(pc, c, Rethrow(error).pc)
               /\ thrown' = Except1(thrown, c, Rethrow(error).thrown)
               /\ UNCHANGED waits
          ELSE /\ pc' = Except1(pc, c, "Sleeping")
               /\ waits' = Except1(waits, c, Append(waits[c], delay[c]))
               /\ UNCHANGED thrown
  /\ tried' = Except1(tried, c, tried[c] \cup { putKey[c] })
  /\ UNCHANGED << clock, kv, loaded, existingArticlesMap, results, failed, nowIso,
                  recentArticles, currentTimestamp, putKey, delay, written,
                  lastStored, frameVars >>

\* The setTimeout of the retry fires: the delay doubles and put is tried again.
Wake(c) ==
  /\ pc[c] = "Sleeping"
  /\ delay' = Except1(delay, c, NextDelay(delay[c]))
  /\ pc' = Except1(pc, c, "Putting")
  /\ UNCHANGED << clock, kv, loaded, existingArticlesMap, results, failed, nowIso,
                  recentArticles, currentTimestamp, putKey, attempts, waits,
                  tried, written, lastError, thrown, puts, lastStored, frameVars >>

\* scheduled() has returned or thrown; the invocation and its locals are gone.
Return(c) ==
  /\ pc[c] \in { "Succeeded", "Failed" }
  /\ pc' = Except1(pc, c, "Idle")
  /\ loaded' = Except1(loaded, c, FALSE)
  /\ existingArticlesMap' = Except1(existingArticlesMap, c, EmptyMap)
  /\ results' = Except1(results, c, [s \in Sources |-> PendingResult])
  /\ failed' = Except1(failed, c, {})
  /\ nowIso' = Except1(nowIso, c, NoDatetime)
  /\ recentArticles' = Except1(recentArticles, c, << >>)
  /\ currentTimestamp' = Except1(currentTimestamp, c, Null)
  /\ putKey' = Except1(putKey, c, NoKey)
  /\ attempts' = Except1(attempts, c, 0)
  /\ delay' = Except1(delay, c, 0)
  /\ waits' = Except1(waits, c, << >>)
  /\ tried' = Except1(tried, c, {})
  /\ written' = Except1(written, c, {})
  /\ lastError' = Except1(lastError, c, NoError)
  /\ thrown' = Except1(thrown, c, NoError)
  /\ puts' = Except1(puts, c, 0)
  /\ before' = Except1(before, c, NoStore)
  /\ overlapped' = Except1(overlapped, c, FALSE)
  /\ UNCHANGED << clock, kv, lastStored, response, call >>

\* Time passes.
Tick ==
  /\ clock + TickMs <= MaxTicks * TickMs
  /\ clock' = clock + TickMs
  /\ UNCHANGED << kv, cycleVars, lastStored, frameVars >>

CycleStep(c) ==
  \/ LoadExisting(c)
  \/ LoadThrows(c)
  \/ \E s \in Sources : FetchSettles(c, s)
  \/ Merge(c)
  \/ PutSucceeds(c) /\ UNCHANGED puts
  \/ PutFails(c) /\ UNCHANGED puts
  \/ Wake(c)
  \/ Return(c)

\* Refresh cycles run one at a time.
Next ==
  \/ \E c \in Cycles : Scheduled(c, 1)
  \/ \E c \in Cycles : CycleStep(c)
  \/ Tick

Spec == Init /\ [][Next]_vars

\* The steps of an invocation when the namespace answers every get and put.
CycleStepStoreUp(c) ==
  \/ LoadExisting(c)
  \/ \E s \in Sources : FetchSettles(c, s)
  \/ Merge(c)
  \/ PutSucceeds(c) /\ UNCHANGED puts

\* Two invocations in all: the second starts while the first is running, or
\* after it has ended.
OverlapNext ==
  \/ \E c \in Cycles : Scheduled(c, 2)
  \/ \E c \in Cycles : CycleStepStoreUp(c)
  \/ Tick

\* The namespace holds nothing when the first invocation starts.
OverlapInit == Init /\ kv = NoStore

OverlapSpec == OverlapInit /\ [][OverlapNext]_vars

\* ------------------------------------------------------------- fetch()

\* Response bodies that are not the snapshot.
NOT_FOUND == [kind |-> "text", value |-> << 52, 48, 52 >>]
ERROR_TEXT == [kind |-> "text", value |-> << 53, 48, 48 >>]

HttpResponse(status, body) == [status |-> status, body |-> body]

\* A handler that serves the value of last_update.
fetchResponseOfMarker(getThrows, store) ==
  IF store[MARKER_KEY].kind = "null" THEN HttpResponse(404, NOT_FOUND)
  ELSE HttpResponse(200, store[MARKER_KEY])

\* What the fetch() handler returns, given whether get("all_articles")
\* throws and what the namespace holds: 404 when the key holds nothing, 500
\* when get or JSON.parse throws, else the stored array serialized again.
fetchResponse(getThrows, store) ==
  LET articlesString == store[SNAPSHOT_KEY]
  IN  IF getThrows THEN HttpResponse(500, ERROR_TEXT)
      ELSE IF articlesString.kind = "null" THEN HttpResponse(404, NOT_FOUND)
      ELSE IF JSONparseThrows(articlesString) THEN HttpResponse(500, ERROR_TEXT)
      ELSE HttpResponse(200, JSONstringify(JSONparse(articlesString)))

\* A request is answered: one get, no put.
Fetch ==
  /\ \E getThrows \in BOOLEAN : response' = fetchResponse(getThrows, kv)
  /\ UNCHANGED << clock, kv, cycleVars, lastStored, before, overlapped, call >>

\* Requests are answered while refresh cycles run, one cycle at a time. The
\* handler never reads the clock, which stands still here.
ReadNext ==
  \/ \E c \in Cycles : Scheduled(c, 1)
  \/ \E c \in Cycles : CycleStep(c)
  \/ Fetch

ReadSpec == Init /\ [][ReadNext]_vars

\* ------------------------------------------------------------- parsing

\* The sequences over S of length 0..n.
SeqsUpTo(S, n) == UNION { [1..k -> S] : k \in 0..n }

\* item elements: with and without a title, with and without a link.
ItemKinds ==
  { Item(TitleT, UrlA, DescD), Item(<< >>, UrlB, << >>),
    Item(TitleT, << >>, DescD), Item(TitleAmp, UrlC, << >>),
    Item(<< >>, << >>, << >>) }

\* "self"
SELF == << 115, 101, 108, 102 >>

\* link elements: rel "alternate", missing or "self"; href given or missing.
LinkKinds ==
  { Link(rel, href) : rel \in { ALTERNATE, << >>, SELF },
                      href \in { UrlA, UrlB, << >> } }

\* Documents with item elements (and, some, an entry element besides).
RssDocuments ==
  { Document(FALSE, items, entries) :
      items \in SeqsUpTo(ItemKinds, MaxItems) \ { << >> },
      entries \in { << >>,
                    << Entry(TitleT, << Link(ALTERNATE, UrlC) >>, << >>, << >>) >> } }

\* Documents with no item element and one entry element.
AtomDocuments ==
  { Document(FALSE, << >>, << Entry(TitleT, links, << >>, DescD) >>) :
      links \in SeqsUpTo(LinkKinds, MaxLinks) }

\* fetchAndParseFeed is called on a source that answers 200 with a document.
ParseCall(fn, doc) ==
  /\ call = NoCall
  /\ call' = [fn |-> fn, args |-> << doc >>,
               result |-> fetchAndParseFeed(SourceUrl(1), SourceName(1),
                                            Response(200, doc))]
  /\ UNCHANGED << clock, kv, cycleVars, lastStored, before, overlapped,
                  response >>

ParseRss == \E doc \in RssDocuments : ParseCall("rss", doc)

ParseAtom == \E doc \in AtomDocuments : ParseCall("atom", doc)

\* A document with neither an item nor an entry element.
ParsePlain == ParseCall("plain", Document(FALSE, << >>, << >>))

ParseNext == ParseRss \/ ParseAtom \/ ParsePlain

ParseSpec == Init /\ [][ParseNext]_vars

\* ------------------------------------------------------------- hashing

\* "/"
SLASH == 47

\* The code units of the hashed urls: "/", "A", "B", "a", "o".
UrlAlphabet == { SLASH, 65, 66, 97, 111 }

\* What the hashed urls start with: nothing, or "zsjpxa".
UrlStems == { << >>, << 122, 115, 106, 112, 120, 97 >> }

HashUrls ==
  { stem \o tail : stem \in UrlStems, tail \in SeqsUpTo(UrlAlphabet, MaxUrlLen) }

\* hashUrl is called on two urls.
HashPair ==
  /\ call = NoCall
  /\ \E u, v \in HashUrls :
       call' = [fn |-> "hashUrl", args |-> << u, v >>,
                result |-> << hashUrl(u), hashUrl(v) >>]
  /\ UNCHANGED << clock, kv, cycleVars, lastStored, before, overlapped,
                  response >>

HashNext == HashPair

HashSpec == Init /\ [][HashNext]_vars

\* ------------------------------------------------------------- CDATA

\* The pieces the stripped texts are made of: "<!", "[CDATA[", "[CDATA",
\* "[", "]]>", "]" and "d".
Tokens ==
  { << LT, BANG >>, CDATA_OPEN, << 91, 67, 68, 65, 84, 65 >>, << 91 >>,
    CDATA_END, << 93 >>, << 100 >> }

RECURSIVE Concat(_)
Concat(pieces) ==
  IF pieces = << >> THEN << >> ELSE Head(pieces) \o Concat(Tail(pieces))

\* The textContent of a title, description, content or summary element.
Texts == { Concat(pieces) : pieces \in SeqsUpTo(Tokens, MaxTokens) }

\* stripCDATA is called on a text.
StripCall ==
  /\ call = NoCall
  /\ \E content \in Texts :
       call' = [fn |-> "stripCDATA", args |-> << content >>,
                result |-> stripCDATA(content)]
  /\ UNCHANGED << clock, kv, cycleVars, lastStored, before, overlapped,
                  response >>

StripNext == StripCall

StripSpec == Init /\ [][StripNext]_vars

\* ------------------------------------------------------------- sorting

\* "A"
UrlD == << 65 >>

\* Articles of three ids, each with a publicationDatetime that is not a
\* date, that is the instant 0, or that is one clock step later.
SortArticleKinds ==
  { WithDatetime(ParsedArticle(link, TitleT, << >>, SourceName(1),
                               SourceUrl(1)), datetime) :
      link \in { UrlA, UrlC, UrlD },
      datetime \in { BadDate, toISOString(0), toISOString(TickMs) } }

\* Array.prototype.sort with the comparator of scheduled() is called on an
\* array of articles.
SortCall ==
  /\ call = NoCall
  /\ \E articles \in SeqsUpTo(SortArticleKinds, MaxSorted) :
       call' = [fn |-> "sort", args |-> << articles >>,
                result |-> SortArticles(articles)]
  /\ UNCHANGED << clock, kv, cycleVars, lastStored, before, overlapped,
                  response >>

SortNext == SortCall

SortSpec == Init /\ [][SortNext]_vars

\* ------------------------------------------------------------- termination

\* One more call of kvNamespace.put by the invocation.
CountPut(c) == puts' = Except1(puts, c, puts[c] + 1)

\* get("all_articles") returns or throws.
GetReturns(c) == LoadExisting(c) \/ LoadThrows(c)

\* A call of kvNamespace.put returns: it resolves or it rejects.
PutReturns(c) == (PutSucceeds(c) \/ PutFails(c)) /\ CountPut(c)

\* The steps of an invocation, its calls of kvNamespace.put counted.
LiveStep(c) ==
  \/ LoadExisting(c)
  \/ LoadThrows(c)
  \/ \E s \in Sources : FetchSettles(c, s)
  \/ Merge(c)
  \/ PutSucceeds(c) /\ CountPut(c)
  \/ PutFails(c) /\ CountPut(c)
  \/ Wake(c)
  \/ Return(c)

\* Refresh cycles run one at a time; the clock stands still.
LiveNext ==
  \/ \E c \in Cycles : Scheduled(c, 1)
  \/ \E c \in Cycles : LiveStep(c)

\* The step Merge takes, as pc shows it: the invocation leaves Fetching once
\* Promise.all has resolved. (Every such step of an invocation is its Merge.)
MergeRuns(c) ==
  /\ pc[c] = "Fetching"
  /\ AllSettled(results[c])
  /\ pc' = Except1(pc, c, "Putting")

\* Every awaited operation of an invocation returns: the get, each fetch,
\* each put and each setTimeout; the synchronous block after Promise.all runs.
Fairness ==
  \A c \in Cycles :
    /\ WF_vars(GetReturns(c))
    /\ \A s \in Sources : WF_vars(FetchSettles(c, s))
    /\ WF_pc(MergeRuns(c))
    /\ WF_vars(PutReturns(c))
    /\ WF_vars(Wake(c))

LiveSpec == Init /\ [][LiveNext]_vars /\ Fairness

\* ------------------------------------------------------------- properties

\* The invocation has run its merge.
Merged(c) == pc[c] \in { "Putting", "Sleeping", "Succeeded", "Failed" }

\* The invocation has written its snapshot under all_articles.
WroteSnapshot(c) == SNAPSHOT_KEY \in written[c]

\* The articles stored under all_articles (none when it holds no array).
StoredArticles ==
  IF kv[SNAPSHOT_KEY].kind = "json" THEN kv[SNAPSHOT_KEY].value ELSE << >>

IdsOf(articles) == { articles[i].id : i \in DOMAIN articles }

\* `now` of the invocation's merge, ms.
NowOf(c) == DateGetTime(nowIso[c])

\* The retention window, ms.
WindowMs == RETENTION_HOURS * MS_PER_HOUR

\* C1: a snapshot written by a refresh cycle holds no two articles with the
\* same id.
C1_NoDuplicateIds ==
  \A c \in Cycles :
    WroteSnapshot(c) =>
      \A i, j \in DOMAIN StoredArticles :
        i # j => StoredArticles[i].id # StoredArticles[j].id

\* C2: every article of a snapshot written by a refresh cycle has a
\* publicationDatetime that parses and is at most 48 hours before the `now`
\* of that cycle's merge (so an article whose preserved timestamp is older,
\* or is not a date, is not written).
C2_WindowProperty ==
  \A c \in Cycles :
    WroteSnapshot(c) =>
      /\ kv[SNAPSHOT_KEY].kind = "json"
      /\ \A i \in DOMAIN StoredArticles :
           /\ StoredArticles[i].publicationDatetime.valid
           /\ NowOf(c) - DateGetTime(StoredArticles[i].publicationDatetime)
                <= WindowMs

\* C2 witness: a cycle has written its snapshot; a source still lists an
\* article whose preserved timestamp is not a date, and it was not written.
C2_Witness ==
  \E c \in Cycles :
    /\ WroteSnapshot(c)
    /\ \E s \in Sources : \E i \in DOMAIN results[c][s].articles :
         LET id == results[c][s].articles[i].id
         IN  /\ id \in DOMAIN existingArticlesMap[c]
             /\ ~existingArticlesMap[c][id].publicationDatetime.valid
             /\ id \notin IdsOf(StoredArticles)
    /\ StoredArticles # << >>

\* C3 as stated: when a cycle writes an id with a publicationDatetime other
\* than the one last written for that id, the window has closed on the
\* earlier one (it is more than 48 hours before the cycle's `now`).
C3_Original ==
  [][\A c \in Cycles :
       (~WroteSnapshot(c) /\ (WroteSnapshot(c))') =>
         \A i \in DOMAIN recentArticles[c] : \A p \in lastStored :
           (p[1] = recentArticles[c][i].id
              /\ p[2] # recentArticles[c][i].publicationDatetime)
             => NowOf(c) - DateGetTime(p[2]) > WindowMs]_vars

\* C3 amended: a cycle that loaded the previous snapshot writes every id that
\* is in both the previous and the new snapshot with the publicationDatetime
\* it had; the two differ only when the previous snapshot could not be read.
C3_StickyWhenLoaded ==
  [][\A c \in Cycles :
       (~WroteSnapshot(c) /\ (WroteSnapshot(c))' /\ loaded[c]) =>
         \A i \in DOMAIN StoredArticles : \A j \in DOMAIN StoredArticles' :
           StoredArticles[i].id = StoredArticles'[j].id =>
             StoredArticles[i].publicationDatetime
               = StoredArticles'[j].publicationDatetime]_vars

\* C3 witness: a cycle that loaded the previous snapshot has written an id it
\* had loaded, later than that id's publicationDatetime.
C3_Witness ==
  \E c \in Cycles :
    /\ WroteSnapshot(c)
    /\ loaded[c]
    /\ \E i \in DOMAIN StoredArticles :
         /\ StoredArticles[i].id \in DOMAIN existingArticlesMap[c]
         /\ DateGetTime(StoredArticles[i].publicationDatetime) < NowOf(c)

\* C4: an id of the previous snapshot that no source's parse result contains
\* is not in the snapshot the cycle writes. Before the write the store still
\* holds the previous snapshot; the write stores recentArticles.
C4_Disappearance ==
  \A c \in Cycles :
    /\ (Merged(c) /\ ~WroteSnapshot(c)) =>
         \A id \in IdsOf(StoredArticles) :
           id \notin IdsOf(ParsedArticlesOf(results[c]))
             => id \notin IdsOf(recentArticles[c])
    /\ WroteSnapshot(c) =>
         /\ kv[SNAPSHOT_KEY] = JSONstringify(recentArticles[c])
         /\ \A id \in DOMAIN existingArticlesMap[c] :
              id \notin IdsOf(ParsedArticlesOf(results[c]))
                => id \notin IdsOf(StoredArticles)

\* C4 witness: a cycle has written a non-empty snapshot without an id that it
\* had loaded, that is still inside its window, and that no source listed.
C4_Witness ==
  \E c \in Cycles :
    /\ WroteSnapshot(c)
    /\ StoredArticles # << >>
    /\ \E id \in DOMAIN existingArticlesMap[c] :
         /\ id \notin IdsOf(ParsedArticlesOf(results[c]))
         /\ existingArticlesMap[c][id].publicationDatetime.valid
         /\ NowOf(c) - DateGetTime(existingArticlesMap[c][id].publicationDatetime)
              <= WindowMs
         /\ id \notin IdsOf(StoredArticles)

\* The parse results of the cycle reproduce exactly the ids it loaded.
ReproducesLoaded(c) ==
  /\ DOMAIN existingArticlesMap[c] # {}
  /\ IdsOf(ParsedArticlesOf(results[c])) = DOMAIN existingArticlesMap[c]

\* C5: when the parse results reproduce every id of the previous snapshot,
\* every article of the merged snapshot has the publicationDatetime it had in
\* the previous snapshot.
C5_RoundTrip ==
  \A c \in Cycles :
    (Merged(c) /\ ReproducesLoaded(c)) =>
      \A i \in DOMAIN recentArticles[c] :
        recentArticles[c][i].publicationDatetime
          = existingArticlesMap[c][recentArticles[c][i].id].publicationDatetime

\* C5 witness: such a merge, later than the first sight of an article that
\* survives it.
C5_Witness ==
  \E c \in Cycles :
    /\ Merged(c)
    /\ ReproducesLoaded(c)
    /\ \E i \in DOMAIN recentArticles[c] :
         DateGetTime(recentArticles[c][i].publicationDatetime) < NowOf(c)

\* C6: a snapshot written by a refresh cycle is ordered by
\* publicationDatetime, descending.
C6_SortedDescending ==
  \A c \in Cycles :
    WroteSnapshot(c) =>
      \A i \in DOMAIN StoredArticles :
        i + 1 \in DOMAIN StoredArticles =>
          DateGetTime(StoredArticles[i].publicationDatetime)
            >= DateGetTime(StoredArticles[i + 1].publicationDatetime)

\* C6 witness: a written snapshot whose first article is newer than its
\* second, the parse results having listed the older one first.
C6_Witness ==
  \E c \in Cycles :
    /\ WroteSnapshot(c)
    /\ Len(StoredArticles) >= 2
    /\ DateGetTime(StoredArticles[1].publicationDatetime)
         > DateGetTime(StoredArticles[2].publicationDatetime)
    /\ ParsedArticlesOf(results[c])[1].id = StoredArticles[2].id

\* An article of the sequence comes from this parsed article.
Holds(articles, parsed) ==
  \E i \in DOMAIN articles :
    /\ articles[i].id = parsed.id
    /\ articles[i].url = parsed.url
    /\ articles[i].source = parsed.source

\* The preserved timestamp of the id, if the cycle loaded one, has left the
\* retention window (or is not a date).
Expired(c, id) ==
  /\ id \in DOMAIN existingArticlesMap[c]
  /\ \/ ~existingArticlesMap[c][id].publicationDatetime.valid
     \/ NowOf(c) - DateGetTime(existingArticlesMap[c][id].publicationDatetime)
          > WindowMs

\* C7: a source that fails gives an empty result and nothing else changes:
\* the merged snapshot holds no article of a failed source and holds every
\* article of the other sources that is inside its window; the cycle fails
\* only by a put that gave up, and ends Succeeded once both puts resolve.
C7_SourceFailureIsolated ==
  \A c \in Cycles :
    /\ \A s \in failed[c] : results[c][s] = Resolved(<< >>)
    /\ Merged(c) =>
         /\ \A s \in failed[c] : \A i \in DOMAIN recentArticles[c] :
              recentArticles[c][i].source # SourceName(s)
         /\ \A s \in Sources \ failed[c] :
              \A i \in DOMAIN results[c][s].articles :
                \/ Expired(c, results[c][s].articles[i].id)
                \/ Holds(recentArticles[c], results[c][s].articles[i])
    /\ WroteSnapshot(c) => kv[SNAPSHOT_KEY] = JSONstringify(recentArticles[c])
    /\ pc[c] = "Failed" => thrown[c].key \in Keys /\ GivesUp(thrown[c].attempt)
    /\ written[c] = Keys => pc[c] = "Succeeded"

\* C7 witness: a cycle in which the first source failed has ended Succeeded,
\* and the stored snapshot holds the articles of another source.
C7_Witness ==
  \E c \in Cycles :
    /\ pc[c] = "Succeeded"
    /\ failed[c] = { 1 }
    /\ StoredArticles # << >>
    /\ \A i \in DOMAIN StoredArticles : StoredArticles[i].source = SourceName(2)

\* C8: no put to last_update is attempted in a cycle before a put to
\* all_articles has succeeded in that cycle.
C8_SnapshotBeforeMarker ==
  \A c \in Cycles :
    (MARKER_KEY \in tried[c] \/ putKey[c] = MARKER_KEY)
      => SNAPSHOT_KEY \in written[c]

\* C8 witness: a cycle has attempted a put to last_update.
C8_Witness ==
  \E c \in Cycles : MARKER_KEY \in tried[c] /\ MARKER_KEY \notin written[c]

\* C9: a putWithRetries makes at most 4 put attempts; it has waited 200, 400
\* and 800 ms before its 1st, 2nd and 3rd retry; after the 4th failure it
\* neither waits nor tries again.
C9_BoundedBackoff ==
  \A c \in Cycles :
    /\ attempts[c] <= 4
    /\ pc[c] = "Putting" => attempts[c] <= 3 /\ Len(waits[c]) = attempts[c]
    /\ pc[c] = "Sleeping" => attempts[c] \in 1..3 /\ Len(waits[c]) = attempts[c]
    /\ pc[c] = "Failed" => attempts[c] = 4 /\ Len(waits[c]) = 3
    /\ pc[c] = "Succeeded" => attempts[c] <= 3 /\ Len(waits[c]) = attempts[c]
    /\ \A i \in DOMAIN waits[c] : waits[c][i] = << 200, 400, 800 >>[i]

\* C9 witness: a putWithRetries has failed 4 times and has waited 200, 400
\* and 800 ms.
C9_Witness ==
  \E c \in Cycles :
    pc[c] = "Failed" /\ attempts[c] = 4 /\ waits[c] = << 200, 400, 800 >>

\* C10: a cycle ends Succeeded only with both keys written; it ends Failed
\* exactly when a write has failed on all 4 attempts, and then scheduled()
\* throws the error of the last attempt.
C10_ErrorPropagates ==
  \A c \in Cycles :
    /\ pc[c] = "Succeeded" => written[c] = Keys /\ thrown[c] = NoError
    /\ pc[c] = "Failed" =>
         /\ putKey[c] \in Keys \ written[c]
         /\ attempts[c] = 4
         /\ thrown[c] = PutError(putKey[c], 4)
         /\ thrown[c] = lastError[c]
    /\ (Merged(c) /\ attempts[c] = 4) => pc[c] = "Failed"
    /\ (Merged(c) /\ attempts[c] < 4) => thrown[c] = NoError

\* C10 witness: the write of last_update failed twice and succeeded on its
\* third attempt, after waits of 200 and 400 ms; the cycle ended Succeeded.
C10_Witness ==
  \E c \in Cycles :
    /\ pc[c] = "Succeeded"
    /\ attempts[c] = 2
    /\ waits[c] = << 200, 400 >>
    /\ lastError[c] = PutError(MARKER_KEY, 2)

\* C11: when a cycle has written its snapshot and the write of last_update
\* has failed on all 4 attempts, the cycle has ended Failed and thrown the
\* error of the last attempt, all_articles holds the cycle's snapshot,
\* last_update holds what it held when the cycle started, and a reader gets
\* the cycle's snapshot.
C11_MarkerFailureAsymmetry ==
  \A c \in Cycles :
    (WroteSnapshot(c) /\ putKey[c] = MARKER_KEY
       /\ attempts[c] = MAX_RETRIES + 1) =>
      /\ pc[c] = "Failed"
      /\ thrown[c] = PutError(MARKER_KEY, MAX_RETRIES + 1)
      /\ kv[SNAPSHOT_KEY] = JSONstringify(recentArticles[c])
      /\ kv[MARKER_KEY] = before[c][MARKER_KEY]
      /\ fetchResponse(FALSE, kv)
           = HttpResponse(200, JSONstringify(recentArticles[c]))

\* C11 witness: such a cycle, after an earlier cycle had written last_update;
\* the snapshot it wrote is not the one it found.
C11_Witness ==
  \E c \in Cycles :
    /\ pc[c] = "Failed"
    /\ WroteSnapshot(c)
    /\ before[c][MARKER_KEY] # Null
    /\ kv[MARKER_KEY] = before[c][MARKER_KEY]
    /\ kv[SNAPSHOT_KEY] # before[c][SNAPSHOT_KEY]

\* C12 as stated: after a cycle that ended Failed, all_articles holds what it
\* held when that cycle started.
C12_Original ==
  \A c \in Cycles :
    pc[c] = "Failed" => kv[SNAPSHOT_KEY] = before[c][SNAPSHOT_KEY]

\* C12 amended: a cycle ends Failed either in the write of all_articles, and
\* then both keys hold what they held when the cycle started, or in the
\* write of last_update, and then all_articles holds the snapshot of the
\* failed cycle.
C12_FailedSnapshotWriteLeavesStore ==
  \A c \in Cycles :
    pc[c] = "Failed" =>
      /\ thrown[c].key = SNAPSHOT_KEY <=> ~WroteSnapshot(c)
      /\ ~WroteSnapshot(c) => written[c] = {} /\ kv = before[c]
      /\ WroteSnapshot(c) => kv[SNAPSHOT_KEY] = JSONstringify(recentArticles[c])

\* C12 witness: the write of all_articles failed on all attempts in a cycle
\* that had merged articles other than the stored ones; the snapshot an
\* earlier cycle wrote is still there.
C12_Witness ==
  \E c \in Cycles :
    /\ pc[c] = "Failed"
    /\ ~WroteSnapshot(c)
    /\ StoredArticles # << >>
    /\ recentArticles[c] # StoredArticles
    /\ kv[MARKER_KEY] # Null

\* C13 as stated: whenever all_articles holds the snapshot a cycle wrote,
\* last_update holds the marker of that cycle.
C13_Original ==
  \A c \in Cycles :
    WroteSnapshot(c) => kv[MARKER_KEY] = currentTimestamp[c]

\* C13 amended: last_update is written by a put of its own, after the put of
\* all_articles. It changes only in a step in which a cycle that has written
\* its snapshot ends Succeeded, and then holds that cycle's marker next to
\* that cycle's snapshot; until that step, and for good when the write
\* fails, all_articles holds the new snapshot next to the marker of an
\* earlier cycle (or none).
C13_MarkerAfterSnapshot ==
  [][\A c \in Cycles :
       /\ (MARKER_KEY \notin written[c] /\ MARKER_KEY \in written[c]') =>
            /\ pc[c]' = "Succeeded"
            /\ kv[SNAPSHOT_KEY] = JSONstringify(recentArticles[c])
            /\ kv[SNAPSHOT_KEY]' = kv[SNAPSHOT_KEY]
            /\ kv[MARKER_KEY]' = currentTimestamp[c]
       /\ (WroteSnapshot(c)' /\ MARKER_KEY \notin written[c]') =>
            kv[MARKER_KEY]' = before[c]'[MARKER_KEY]
       /\ kv[MARKER_KEY]' # kv[MARKER_KEY] =>
            \E d \in Cycles :
              MARKER_KEY \notin written[d] /\ MARKER_KEY \in written[d]']_vars

\* C13 witness: all_articles holds the snapshot of a cycle in flight and
\* last_update the marker of an earlier cycle, written at another time.
C13_Witness ==
  \E c \in Cycles :
    /\ WroteSnapshot(c)
    /\ MARKER_KEY \notin written[c]
    /\ kv[SNAPSHOT_KEY] = JSONstringify(recentArticles[c])
    /\ kv[MARKER_KEY] # Null
    /\ kv[MARKER_KEY] # currentTimestamp[c]

\* C14 as stated: a request is answered 404 when all_articles holds nothing
\* and else 200 with the stored value; the store is not written.
C14_Original ==
  [][Fetch =>
       /\ kv' = kv
       /\ response' = IF kv[SNAPSHOT_KEY] = Null
                       THEN HttpResponse(404, NOT_FOUND)
                       ELSE HttpResponse(200, kv[SNAPSHOT_KEY])]_vars

\* What a request is answered with when get() does not throw.
Served(store) ==
  IF store[SNAPSHOT_KEY] = Null THEN HttpResponse(404, NOT_FOUND)
  ELSE IF store[SNAPSHOT_KEY].kind # "json" THEN HttpResponse(500, ERROR_TEXT)
  ELSE HttpResponse(200, store[SNAPSHOT_KEY])

\* C14 amended: a request can be answered in every state, also while a cycle
\* is in flight; the answer is 500 when get() or JSON.parse throws, else 404
\* when all_articles holds nothing, else 200 with the stored array: the
\* snapshot of the cycle in flight once it has written it, and before that
\* what the store held when the cycle started. No step of the handler
\* changes the store or the cycle.
C14_ReadServesStoredSnapshot ==
  /\ [](ENABLED Fetch)
  /\ [][Fetch =>
          /\ kv' = kv
          /\ cycleVars' = cycleVars
          /\ response' \in { HttpResponse(500, ERROR_TEXT), Served(kv) }
          /\ \A c \in Cycles :
               /\ (InFlight(c) /\ ~WroteSnapshot(c)) =>
                    Served(kv) = Served(before[c])
               /\ WroteSnapshot(c) =>
                    Served(kv) = HttpResponse(200,
                                   JSONstringify(recentArticles[c]))]_vars

\* C14 witness: a request was answered, while a cycle was retrying its
\* write of last_update, with the snapshot that cycle had just written.
C14_Witness ==
  \E c \in Cycles :
    /\ pc[c] = "Sleeping"
    /\ WroteSnapshot(c)
    /\ recentArticles[c] # << >>
    /\ response = HttpResponse(200, JSONstringify(recentArticles[c]))
    /\ before[c][SNAPSHOT_KEY] = Null

\* The invocation writes its snapshot in this step.
WritesSnapshot(c) == ~WroteSnapshot(c) /\ WroteSnapshot(c)'

\* The article is inside the retention window at the `now` of the invocation.
InsideWindow(c, article) ==
  /\ article.publicationDatetime.valid
  /\ NowOf(c) - DateGetTime(article.publicationDatetime) <= WindowMs

\* C15, last clause as stated: a cycle that never had another cycle running
\* next to it neither drops a stored id that is inside its window nor writes
\* it with another publicationDatetime.
C15_Original ==
  [][\A c \in Cycles :
       (WritesSnapshot(c) /\ ~overlapped[c]) =>
         \A i \in DOMAIN StoredArticles :
           InsideWindow(c, StoredArticles[i]) =>
             \E j \in DOMAIN StoredArticles' :
               /\ StoredArticles'[j].id = StoredArticles[i].id
               /\ StoredArticles'[j].publicationDatetime
                    = StoredArticles[i].publicationDatetime]_vars

\* C15 amended: a cycle that has read the previous snapshot writes a stored
\* id with another publicationDatetime only when another cycle was running
\* next to it and wrote the id after this cycle had read the store; a cycle
\* that ran alone writes over the very snapshot it read. (An id that no
\* source lists is dropped with or without overlap.)
C15_LostUpdateNeedsOverlap ==
  [][\A c \in Cycles :
       (WritesSnapshot(c) /\ loaded[c]) =>
         /\ \A i \in DOMAIN StoredArticles : \A j \in DOMAIN StoredArticles' :
              (/\ StoredArticles[i].id = StoredArticles'[j].id
               /\ StoredArticles[i].publicationDatetime
                    # StoredArticles'[j].publicationDatetime)
                => /\ overlapped[c]
                   /\ StoredArticles[i].id \notin DOMAIN existingArticlesMap[c]
         /\ ~overlapped[c] =>
              existingArticlesMap[c] = MapFromArticles(StoredArticles)]_vars

\* C15 witness: two cycles read the same store before either wrote; one
\* wrote an id with its first-seen time, and the other has overwritten it,
\* inside the window, with a later time.
C15_Witness ==
  \E c, d \in Cycles :
    /\ c # d
    /\ overlapped[c] /\ loaded[c] /\ loaded[d]
    /\ existingArticlesMap[c] = existingArticlesMap[d]
    /\ WroteSnapshot(c) /\ WroteSnapshot(d)
    /\ kv[SNAPSHOT_KEY] = JSONstringify(recentArticles[c])
    /\ \E i \in DOMAIN recentArticles[c] : \E j \in DOMAIN recentArticles[d] :
         /\ recentArticles[c][i].id = recentArticles[d][j].id
         /\ InsideWindow(c, recentArticles[d][j])
         /\ DateGetTime(recentArticles[d][j].publicationDatetime)
              < DateGetTime(recentArticles[c][i].publicationDatetime)

\* C16: a cycle that found nothing under all_articles has an empty map and
\* does not fail for it: its merge keeps every parsed article, in the order
\* parsed, with the cycle's nowIso, and the cycle ends Failed only by a put
\* that gave up.
C16_AbsentSnapshotIsEmpty ==
  \A c \in Cycles :
    (loaded[c] /\ before[c][SNAPSHOT_KEY] = Null) =>
      /\ existingArticlesMap[c] = EmptyMap
      /\ pc[c] = "Failed" => Merged(c) /\ attempts[c] = MAX_RETRIES + 1
      /\ Merged(c) =>
           /\ Len(recentArticles[c]) = Len(ParsedArticlesOf(results[c]))
           /\ \A i \in DOMAIN recentArticles[c] :
                /\ recentArticles[c][i].url = ParsedArticlesOf(results[c])[i].url
                /\ recentArticles[c][i].publicationDatetime = nowIso[c]
                /\ nowIso[c].valid

\* C16 witness: such a cycle, run later than the epoch, has ended Succeeded
\* with the articles of both sources stored.
C16_Witness ==
  \E c \in Cycles :
    /\ pc[c] = "Succeeded"
    /\ loaded[c]
    /\ before[c][SNAPSHOT_KEY] = Null
    /\ NowOf(c) > 0
    /\ Len(StoredArticles) = NumSources
    /\ kv[SNAPSHOT_KEY] = JSONstringify(recentArticles[c])

HasLink(item) == item.link # << >>

\* C17: for a document with item elements, the parser returns one article
\* per item that has a link, in document order, with the url and the id of
\* that link, and none for an item without a link; an item with an empty
\* title gets the source name as title.
C17_OneArticlePerLinkedItem ==
  call.fn = "rss" =>
    LET linked == SelectSeq(call.args[1].items, HasLink)
    IN  /\ Len(call.result) = Len(linked)
        /\ \A i \in DOMAIN linked :
             /\ call.result[i].url = linked[i].link
             /\ call.result[i].id = hashUrl(linked[i].link)
             /\ call.result[i].source = SourceName(1)
             /\ linked[i].title = << >> =>
                  call.result[i].title = SourceName(1)
             /\ linked[i].title = TitleT => call.result[i].title = TitleT

\* C17 witness: three items, the first without a title and the second
\* without a link, gave two articles, the first titled with the source name.
C17_Witness ==
  /\ call.fn = "rss"
  /\ Len(call.args[1].items) = 3
  /\ call.args[1].items[1].title = << >>
  /\ call.args[1].items[1].link = UrlB
  /\ call.args[1].items[2].link = << >>
  /\ call.args[1].items[3].link = UrlC
  /\ Len(call.result) = 2
  /\ call.result[1].title = SourceName(1)
  /\ call.result[2].url = UrlC

\* The entry of the parsed ATOM document has a link with rel="alternate" and
\* another link.
HasAlternateAndOther(links) ==
  /\ \E k \in DOMAIN links : links[k].rel = ALTERNATE
  /\ \E k \in DOMAIN links : links[k].rel # ALTERNATE

\* The first link of the entry with rel="alternate".
FirstAlternate(links) ==
  links[CHOOSE k \in DOMAIN links :
          /\ links[k].rel = ALTERNATE
          /\ \A m \in DOMAIN links : links[m].rel = ALTERNATE => k <= m]

\* C18 as stated: the article of an entry with an alternate link and other
\* links, in any order and with any hrefs, has the href of the alternate
\* link as url.
C18_Original ==
  (call.fn = "atom" /\ HasAlternateAndOther(call.args[1].entries[1].links)) =>
    \A i \in DOMAIN call.result :
      call.result[i].url = FirstAlternate(call.args[1].entries[1].links).href

\* The links of the entry whose rel is "alternate" or missing.
Preferred(links) ==
  { k \in DOMAIN links : links[k].rel = ALTERNATE \/ links[k].rel = << >> }

\* The first of them.
FirstPreferred(links) ==
  links[CHOOSE k \in Preferred(links) : \A m \in Preferred(links) : k <= m]

\* C18 amended: the url of the article of an entry (with a title) is the
\* href of the first link whose rel is "alternate" or missing; when there is
\* no such link, or its href is empty, it is the href of the first link; an
\* entry for which that is empty too gives no article. So the url is the
\* href of the alternate link when that href is not empty and no link
\* without rel comes before it.
C18_FirstAlternateOrRelless ==
  call.fn = "atom" =>
    LET links == call.args[1].entries[1].links
        url == IF Preferred(links) # {} /\ FirstPreferred(links).href # << >>
               THEN FirstPreferred(links).href
               ELSE IF links # << >> THEN links[1].href ELSE << >>
    IN  /\ url = << >> => call.result = << >>
        /\ url # << >> => Len(call.result) = 1 /\ call.result[1].url = url
        /\ (/\ HasAlternateAndOther(links)
            /\ FirstAlternate(links).href # << >>
            /\ FirstPreferred(links) = FirstAlternate(links))
             => call.result[1].url = FirstAlternate(links).href

\* C18 witness: an entry whose first link has rel="self" and whose second
\* has rel="alternate" gave an article with the href of the second as url.
C18_Witness ==
  /\ call.fn = "atom"
  /\ Len(call.args[1].entries[1].links) >= 2
  /\ call.args[1].entries[1].links[1] = Link(SELF, UrlA)
  /\ call.args[1].entries[1].links[2] = Link(ALTERNATE, UrlB)
  /\ Len(call.result) = 1
  /\ call.result[1].url = UrlB

\* The two strings have the same length and differ at exactly one index.
OneSubstitution(u, v) ==
  /\ Len(u) = Len(v)
  /\ Cardinality({ i \in DOMAIN u : u[i] # v[i] }) = 1

\* One of the strings is the other with one more code unit at its end.
OneAppended(u, v) ==
  \E ch \in UrlAlphabet : v = Append(u, ch) \/ u = Append(v, ch)

\* The 32-bit hash of the url, before Math.abs.
Hash32(url) == HashLoop(url, 1, << 0, 0 >>)

\* C19 as stated: two urls that differ in one character have different ids.
C19_Original ==
  (call.fn = "hashUrl"
     /\ (OneSubstitution(call.args[1], call.args[2])
           \/ OneAppended(call.args[1], call.args[2]))) =>
    call.result[1] # call.result[2]

\* C19 amended: two urls that differ only by a trailing slash have
\* different ids; two urls that differ in one character have different
\* 32-bit hashes, and have the same id exactly when Math.abs gives both
\* hashes the same magnitude (one hash is the negative of the other).
C19_TrailingSlashDiffers ==
  call.fn = "hashUrl" =>
    LET u == call.args[1]
        v == call.args[2]
    IN  /\ v = Append(u, SLASH) => call.result[1] # call.result[2]
        /\ OneSubstitution(u, v) =>
             /\ Hash32(u) # Hash32(v)
             /\ call.result[1] = call.result[2]
                  <=> MathAbs(Hash32(u)) = MathAbs(Hash32(v))

\* C19 witness: "A" and "A/" gave the ids "1t" and "1la".
C19_Witness ==
  /\ call.fn = "hashUrl"
  /\ call.args = << << 65 >>, << 65, SLASH >> >>
  /\ call.result = << << "1", "t" >>, << "1", "l", "a" >> >>

\* C20: a cycle calls no put before every source's fetch has resolved and
\* its merge is done: while it is loading or fetching, it has tried no key
\* and both keys hold what they held when it started (so a cycle stopped
\* there leaves the store as it was); once it is in a put, every result
\* has settled and recentArticles is the merged, filtered, sorted array.
C20_NoWriteBeforeMerge ==
  \A c \in Cycles :
    /\ pc[c] \in { "Loading", "Fetching" } =>
         /\ tried[c] = {}
         /\ putKey[c] = NoKey
         /\ kv = before[c]
    /\ (tried[c] # {} \/ putKey[c] # NoKey) =>
         /\ \A s \in Sources : results[c][s].settled
         /\ recentArticles[c]
              = MergeSnapshot(ParsedArticlesOf(results[c]),
                              existingArticlesMap[c], nowIso[c], NowOf(c))

\* C20 witness: one source of a cycle has resolved with an article, another
\* is still pending, and the store holds the snapshot of an earlier cycle.
C20_Witness ==
  \E c \in Cycles :
    /\ pc[c] = "Fetching"
    /\ \E s \in Sources :
         results[c][s].settled /\ results[c][s].articles # << >>
    /\ \E s \in Sources : ~results[c][s].settled
    /\ StoredArticles # << >>
    /\ kv[MARKER_KEY] # Null
    /\ kv = before[c]


\* The invocation has ended: scheduled() has returned or thrown.
Ended(c) == pc[c] \in { "Succeeded", "Failed" }

\* The calls of kvNamespace.put an invocation can make: two putWithRetries,
\* each a first attempt and MAX_RETRIES retries.
MaxPuts == 2 * (MAX_RETRIES + 1)

\* C21: provided every awaited operation returns, every refresh cycle that
\* starts ends Succeeded or Failed; it persists only after its merge, merges
\* only after every fetch has settled, ends only after it has tried to
\* persist, and calls put at most 8 times in all.
C21_CycleEnds ==
  /\ \A c \in Cycles : (pc[c] = "Loading") ~> Ended(c)
  /\ [](\A c \in Cycles :
          /\ pc[c] \in { "Idle", "Loading" } =>
               \A s \in Sources : ~results[c][s].settled
          /\ pc[c] \in { "Idle", "Loading", "Fetching" } =>
               nowIso[c] = NoDatetime /\ tried[c] = {} /\ puts[c] = 0
          /\ Merged(c) => AllSettled(results[c]) /\ nowIso[c] # NoDatetime
          /\ Ended(c) => SNAPSHOT_KEY \in tried[c] /\ puts[c] >= 1
          /\ puts[c] <= MaxPuts
          /\ MaxPuts = 8)

\* A cycle has ended Succeeded after eight calls of put: three failures and
\* a success on each key.
C21_Witness ==
  \E c \in Cycles :
    /\ pc[c] = "Succeeded"
    /\ puts[c] = 8
    /\ written[c] = Keys
    /\ AllSettled(results[c])

\* The article without its publicationDatetime: the fields of a ParsedArticle.
ParsedFields(article) ==
  [id |-> article.id, url |-> article.url, title |-> article.title,
   snippet |-> article.snippet, source |-> article.source,
   sourceUrl |-> article.sourceUrl]

\* The source's fetchAndParseFeed resolved, in this invocation, with the
\* article's fields.
ParsedFrom(c, s, article) ==
  \E j \in DOMAIN results[c][s].articles :
    results[c][s].articles[j] = ParsedFields(article)

\* C22: every article of a snapshot a cycle has written has a non-empty url,
\* the id hashUrl(url), and as sourceUrl the feed url of a configured source
\* (not its own link); its id, url, title, snippet, source and sourceUrl are
\* those of an article that source's parse gave in this cycle.
C22_FieldsFromCurrentParse ==
  \A c \in Cycles :
    WroteSnapshot(c) =>
      /\ kv[SNAPSHOT_KEY] = JSONstringify(recentArticles[c])
      /\ \A i \in DOMAIN StoredArticles :
           LET article == StoredArticles[i] IN
             /\ article.url # << >>
             /\ article.id = hashUrl(article.url)
             /\ article.sourceUrl # article.url
             /\ \E s \in Sources :
                  /\ article.sourceUrl = SourceUrl(s)
                  /\ article.source = SourceName(s)
                  /\ ParsedFrom(c, s, article)

\* A cycle has written an article whose id the previous snapshot held with
\* another source and sourceUrl, under its earlier publicationDatetime.
C22_Witness ==
  \E c \in Cycles :
    /\ WroteSnapshot(c)
    /\ before[c][SNAPSHOT_KEY].kind = "json"
    /\ \E i \in DOMAIN StoredArticles :
         \E j \in DOMAIN before[c][SNAPSHOT_KEY].value :
           LET article == StoredArticles[i]
               previous == before[c][SNAPSHOT_KEY].value[j]
           IN  /\ previous.id = article.id
               /\ previous.sourceUrl # article.sourceUrl
               /\ previous.source # article.source
               /\ previous.publicationDatetime = article.publicationDatetime
               /\ article.publicationDatetime # nowIso[c]

\* What the parser gives for the document of the call without its entry
\* elements.
WithoutEntries ==
  fetchAndParseFeed(SourceUrl(1), SourceName(1),
                    Response(200, Document(FALSE, call.args[1].items, << >>)))

\* C23: a document with an item element is parsed as RSS only: the result is
\* that of the same document without its entry elements, and every article
\* has the link of an item; a document with no item and an entry is parsed
\* as ATOM: an entry whose first link has an href gives one article, with the
\* href of one of its links and the entry's title; a document with neither
\* gives no article.
C23_RssBeforeAtom ==
  /\ call.fn = "rss" =>
       /\ Len(call.args[1].items) > 0
       /\ call.result = WithoutEntries
       /\ \A i \in DOMAIN call.result :
            \E k \in DOMAIN call.args[1].items :
              call.result[i].url = call.args[1].items[k].link
  /\ call.fn = "atom" =>
       LET entry == call.args[1].entries[1] IN
         /\ call.args[1].items = << >>
         /\ Len(call.result) <= 1
         /\ \A i \in DOMAIN call.result :
              /\ \E k \in DOMAIN entry.links :
                   call.result[i].url = entry.links[k].href
              /\ call.result[i].title = entry.title
         /\ (entry.links # << >> /\ entry.links[1].href # << >>) =>
              Len(call.result) = 1
  /\ call.fn = "plain" =>
       /\ call.args[1].items = << >> /\ call.args[1].entries = << >>
       /\ call.result = << >>

\* A document whose items have no link and whose entry has a title and an
\* alternate link gave no article.
C23_Witness ==
  /\ call.fn = "rss"
  /\ \A k \in DOMAIN call.args[1].items : call.args[1].items[k].link = << >>
  /\ Len(call.args[1].entries) = 1
  /\ call.args[1].entries[1].title # << >>
  /\ call.args[1].entries[1].links[1].rel = ALTERNATE
  /\ call.args[1].entries[1].links[1].href # << >>
  /\ call.result = << >>

\* Does pat occur in s?
Contains(s, pat) == \E i \in 1..Len(s) : MatchesAt(s, i, pat)

\* C24: the result of stripCDATA holds neither "[CDATA[" nor "]]".
\* (Of "[CDATA]][" the last replace removes "]]" and leaves "[CDATA[".)
C24_NoResidualToken ==
  call.fn = "stripCDATA" =>
    /\ ~Contains(call.result, CDATA_OPEN)
    /\ ~Contains(call.result, CDATA_CLOSE)

\* new Date(article.publicationDatetime).getTime() is NaN.
Unparseable(article) == isNaN(DateGetTime(article.publicationDatetime))

\* C25: the sort puts every article whose publicationDatetime does not parse
\* after every article whose publicationDatetime does, and leaves the
\* articles that do not parse in the order they had.
C25_UnparseableLast ==
  call.fn = "sort" =>
    /\ Len(call.result) = Len(call.args[1])
    /\ \A i, j \in DOMAIN call.result :
         (i < j /\ Unparseable(call.result[i])) => Unparseable(call.result[j])
    /\ SelectSeq(call.result, Unparseable)
         = SelectSeq(call.args[1], Unparseable)

\* An array whose first and last articles, of different ids, do not parse and
\* whose second does was sorted: the second came first, the other two kept
\* their order.
C25_Witness ==
  /\ call.fn = "sort"
  /\ Len(call.args[1]) = 3
  /\ Unparseable(call.args[1][1])
  /\ ~Unparseable(call.args[1][2])
  /\ Unparseable(call.args[1][3])
  /\ call.args[1][1].id # call.args[1][3].id
  /\ call.result = << call.args[1][2], call.args[1][1], call.args[1][3] >>

\* putWithRetries of all_articles has thrown: scheduled() ended Failed
\* without having written its snapshot.
SnapshotWriteFailed(c) == pc[c] = "Failed" /\ ~WroteSnapshot(c)

\* C26: put is called on last_update only by a cycle that has written its
\* snapshot; a cycle whose write of all_articles failed on all its attempts
\* (the first and MAX_RETRIES retries) has called put on all_articles only,
\* and both keys hold what they held when the cycle started.
C26_FailedSnapshotSkipsMarker ==
  \A c \in Cycles :
    /\ MARKER_KEY \in tried[c] => WroteSnapshot(c)
    /\ SnapshotWriteFailed(c) =>
         /\ attempts[c] = MAX_RETRIES + 1
         /\ thrown[c] = PutError(SNAPSHOT_KEY, MAX_RETRIES + 1)
         /\ tried[c] = { SNAPSHOT_KEY }
         /\ \A k \in Keys : kv[k] = before[c][k]

\* The write of all_articles failed on all attempts in a cycle that started
\* with both keys stored and had another snapshot and another marker to write.
C26_Witness ==
  \E c \in Cycles :
    /\ SnapshotWriteFailed(c)
    /\ \A k \in Keys : before[c][k] # Null
    /\ JSONstringify(recentArticles[c]) # kv[SNAPSHOT_KEY]
    /\ currentTimestamp[c] # kv[MARKER_KEY]
    /\ Len(waits[c]) = MAX_RETRIES

\* The load of the previous snapshot threw in this invocation: get() threw,
\* or it returned a string that JSON.parse throws on.
LoadThrew(c) ==
  /\ pc[c] \notin { "Idle", "Loading" }
  /\ ~loaded[c] \/ JSONparseThrows(before[c][SNAPSHOT_KEY])

\* C27: a cycle whose load of the previous snapshot threw goes on with an
\* empty lookup: it merges every parsed article, in order, with the `now` of
\* this cycle as publicationDatetime, writes exactly that, and fails only if
\* a putWithRetries throws.
C27_LoadFailureTreatsAllAsNew ==
  \A c \in Cycles :
    LoadThrew(c) =>
      /\ existingArticlesMap[c] = EmptyMap
      /\ Merged(c) =>
           recentArticles[c] =
             [i \in DOMAIN ParsedArticlesOf(results[c]) |->
                WithDatetime(ParsedArticlesOf(results[c])[i], nowIso[c])]
      /\ WroteSnapshot(c) => kv[SNAPSHOT_KEY] = JSONstringify(recentArticles[c])
      /\ pc[c] = "Failed" => thrown[c].key \in Keys /\ thrown[c].attempt > MAX_RETRIES

\* get() threw in a cycle that started with a stored article still inside
\* its window; the cycle has written that id with its own `now`.
C27_Witness ==
  \E c \in Cycles :
    /\ ~loaded[c]
    /\ WroteSnapshot(c)
    /\ before[c][SNAPSHOT_KEY].kind = "json"
    /\ \E i \in DOMAIN StoredArticles :
         \E j \in DOMAIN before[c][SNAPSHOT_KEY].value :
           LET previous == before[c][SNAPSHOT_KEY].value[j] IN
             /\ previous.id = StoredArticles[i].id
             /\ InsideWindow(c, previous)
             /\ previous.publicationDatetime # nowIso[c]
             /\ StoredArticles[i].publicationDatetime = nowIso[c]

\* The articles all_articles held when the invocation started (none when it
\* held no array).
PreviousArticles(c) ==
  IF before[c][SNAPSHOT_KEY].kind = "json"
  THEN before[c][SNAPSHOT_KEY].value ELSE << >>

\* The snapshot the invocation started with holds the id with a
\* publicationDatetime more than 48 hours before the `now` of its merge.
HeldExpired(c, id) ==
  \E j \in DOMAIN PreviousArticles(c) :
    /\ PreviousArticles(c)[j].id = id
    /\ PreviousArticles(c)[j].publicationDatetime.valid
    /\ NowOf(c) - DateGetTime(PreviousArticles(c)[j].publicationDatetime)
         > WindowMs

\* The merged articles of the invocation hold the id with its own `now`.
WrittenAsNew(c, id) ==
  \E i \in DOMAIN recentArticles[c] :
    /\ recentArticles[c][i].id = id
    /\ recentArticles[c][i].publicationDatetime = nowIso[c]

\* What C28 says of one cycle and one listed article: stored with a
\* first-seen time more than 48 hours back, it is left out of the cycle's
\* snapshot; not stored, it is in the snapshot with the cycle's `now`.
ExpiresThenRenews(c, id) ==
  /\ HeldExpired(c, id) => id \notin IdsOf(recentArticles[c])
  /\ id \notin IdsOf(PreviousArticles(c)) => WrittenAsNew(c, id)

\* C28 as stated: every cycle (one at a time) drops a listed article whose
\* stored first-seen time is more than 48 hours back, and writes a listed
\* article that is not stored with its own `now`.
C28_Original ==
  \A c \in Cycles :
    Merged(c) =>
      \A i \in DOMAIN ParsedArticlesOf(results[c]) :
        ExpiresThenRenews(c, ParsedArticlesOf(results[c])[i].id)

\* C28 amended: the same of every cycle whose get of the previous snapshot
\* returned; a cycle whose get threw writes every listed article, the expired
\* one too, with its own `now`.
C28_ExpiredDroppedThenRecreated ==
  \A c \in Cycles :
    Merged(c) =>
      \A i \in DOMAIN ParsedArticlesOf(results[c]) :
        LET id == ParsedArticlesOf(results[c])[i].id IN
          /\ loaded[c] => ExpiresThenRenews(c, id)
          /\ ~loaded[c] => WrittenAsNew(c, id)

\* A cycle whose get returned is about to write a listed id with its own
\* `now`: an earlier cycle wrote the id with a time now more than 48 hours
\* back, and the snapshot this cycle started with no longer holds it.
C28_Witness ==
  \E c \in Cycles :
    /\ pc[c] = "Putting"
    /\ loaded[c]
    /\ before[c][SNAPSHOT_KEY].kind = "json"
    /\ \E p \in lastStored :
         /\ p[2].valid
         /\ NowOf(c) - DateGetTime(p[2]) > WindowMs
         /\ p[1] \notin IdsOf(PreviousArticles(c))
         /\ WrittenAsNew(c, p[1])
====
